---- MODULE Spec2Model ----
(***************************************************************************)
(* flux-mcp: the FluxGenerator resource lifecycle (generator.py), the      *)
(* runtime configuration (config.py) and the two front ends that drive it  *)
(* (server.py call_tool, cli.py _generate_image).                          *)
(*                                                                         *)
(* One generator object is shared by client threads and by the threads of  *)
(* its threading.Timer objects.  self._lock is a threading.Lock: it is not *)
(* reentrant, so an acquire by the thread that already holds it blocks.    *)
(* Time is counted in ticks; a datetime is kept as its age in ticks.       *)
(***************************************************************************)
EXTENDS Integers, FiniteSets, Sequences, TLC

\* ---------------------------------------------------------------- bounds
NumClients == 2
MaxTimers == 2
MaxTimeout == 2

Clients == 1..NumClients
TimerIds == (NumClients + 1)..(NumClients + MaxTimers)
Threads == Clients \cup TimerIds
Timeouts == 0..MaxTimeout

\* ------------------------------------------------------------ config.py
None == "None"

\* config.models: preset name -> full model id
models == [p \in {"flux1-dev", "flux2-dev"} |->
             IF p = "flux1-dev" THEN "black-forest-labs/FLUX.1-dev"
                                ELSE "black-forest-labs/FLUX.2-dev"]

\* config.model_id, copied to self.model_id by FluxGenerator.__init__
model_id == "black-forest-labs/FLUX.2-dev"

VARIABLES
    auto_unload,      \* self.auto_unload: TRUE for the server, FALSE for the CLI
    pipeline,         \* self.pipeline: None or the model id of the resident instance
    current_model_id, \* self._current_model_id
    last_access,      \* self._last_access: <<>> for None, <<age in ticks>> otherwise
    lock,             \* self._lock: the set of threads holding it (empty: free)
    unload_timer,     \* self._unload_timer: {} for None, {j} for timer object j
    unload_timeout,   \* config.unload_timeout
    pc,               \* position of every client thread and timer thread
    req,              \* the model argument of a client's generate call in progress
    remaining,        \* ticks until a started timer's interval has elapsed
    last,             \* the most recent return of a load, generate or unload and,
                      \* for the server's tool calls, the most recent answer
    request,          \* a generate request as one of the front ends receives it
    response           \* what the front end and generate() make of that request

vars == <<auto_unload, pipeline, current_model_id, last_access, lock,
          unload_timer, unload_timeout, pc, req, remaining, last,
          request, response>>

\* no request is being followed
NoRequest == [path |-> "none"]
NoResponse == [status |-> "none"]

\* generator.py 208-211 and 52: the model id a generate call resolves to
TargetModel(m) ==
    LET resolved == IF m = None THEN None
                    ELSE IF m \in DOMAIN models THEN models[m] ELSE m
    IN  IF resolved = None THEN model_id ELSE resolved

\* instances of the pipeline that occupy memory: the one self.pipeline holds
\* and every one that from_pretrained is building
Resident ==
    (IF pipeline = None THEN 0 ELSE 1)
        + Cardinality({c \in Clients : pc[c] = "fetch"})

\* timers that are started and whose callback has not begun
PendingTimers == {j \in TimerIds : pc[j] = "pending"}

\* timer threads alive: sleeping, or running their callback
LiveTimers == {j \in TimerIds : pc[j] \in {"pending", "unl_lock", "unl_body"}}

\* threading.Timer.cancel(): stops a timer that has not fired, no effect otherwise
Cancel(ref, p) ==
    [j \in Threads |-> IF j \in ref /\ p[j] = "pending" THEN "cancelled" ELSE p[j]]

\* the interval left is kept for the timers that are still waiting only
Waiting(p, r) == [j \in TimerIds |-> IF p[j] = "pending" THEN r[j] ELSE 0]

\* a timer object nothing refers to any more and whose thread has ended is gone
Collect(ref, p) ==
    [j \in Threads |-> IF j \notin ref /\ p[j] = "cancelled" THEN "free" ELSE p[j]]

\* the with-statement of generate() leaving: the lock is released when held
Release(t) == IF t \in lock THEN {} ELSE lock

\* FluxGenerator.__init__ (27-43) and the configuration it starts with
GeneratorInit ==
    /\ auto_unload \in BOOLEAN
    /\ pipeline = None
    /\ current_model_id = None
    /\ last_access = <<>>
    /\ lock = {}
    /\ unload_timer = {}
    /\ unload_timeout \in Timeouts
    /\ pc = [t \in Threads |-> IF t \in Clients THEN "idle" ELSE "free"]
    /\ req = [c \in Clients |-> None]
    /\ remaining = [j \in TimerIds |-> 0]
    /\ last = "none"

Init ==
    /\ GeneratorInit
    /\ request = NoRequest
    /\ response = NoResponse

\* the values of generate()'s model argument (generator.py 189)
Requests == {None} \cup DOMAIN models

\* the model argument the front ends pass: server.py 131 always names a preset
\* (default "flux2-dev"), cli.py 193-200 passes none
CallerRequests == IF auto_unload THEN DOMAIN models ELSE {None}

\* who may call what: the server's generator is shared, the CLI's generator
\* (auto_unload = False) is used by the one thread of the CLI process
MayCall(c) == pc[c] = "idle" /\ (auto_unload \/ c = 1)

\* -------------------------------------------------------------- generate
\* a caller reaches `with self._lock:` (generator.py 207)
GenerateCall(c, m) ==
    /\ MayCall(c)
    /\ m \in CallerRequests
    /\ pc' = [pc EXCEPT ![c] = "gen_lock"]
    /\ req' = [req EXCEPT ![c] = m]
    /\ UNCHANGED <<request, response,
                   auto_unload, pipeline, current_model_id, last_access, lock,
                   unload_timer, unload_timeout, remaining, last>>

\* mutant of GenerateEnter: generate runs without waiting for the lock
GenerateEnter_NoLock(c) ==
    /\ pc[c] = "gen_lock"
    /\ Cardinality(LiveTimers) < MaxTimers
    /\ lock' = {c}
    /\ pc' = [pc EXCEPT ![c] = "load"]
    /\ UNCHANGED <<request, response,
                   auto_unload, pipeline, current_model_id, last_access,
                   unload_timer, unload_timeout, req, remaining, last>>

\* the lock is acquired (207); a timer object must be available for line 142
GenerateEnter(c) ==
    /\ pc[c] = "gen_lock"
    /\ lock = {}
    /\ Cardinality(LiveTimers) < MaxTimers
    /\ lock' = {c}
    /\ pc' = [pc EXCEPT ![c] = "load"]
    /\ UNCHANGED <<request, response,
                   auto_unload, pipeline, current_model_id, last_access,
                   unload_timer, unload_timeout, req, remaining, last>>

\* mutant of LoadModel: whatever variant is resident is used as it is
LoadModel_ReusesLoaded(c) ==
    /\ pc[c] = "load"
    /\ IF pipeline # None
       THEN pc' = [pc EXCEPT ![c] = IF c \in lock THEN "access" ELSE "idle"]
       ELSE pc' = [pc EXCEPT ![c] = "fetch"]
    /\ UNCHANGED <<request, response,
                   auto_unload, pipeline, current_model_id, last_access, lock,
                   unload_timer, unload_timeout, req, remaining, last>>

\* mutant of LoadModel: a different variant is loaded over the resident one
LoadModel_NoUnload(c) ==
    /\ pc[c] = "load"
    /\ LET target == TargetModel(req[c]) IN
         IF pipeline # None /\ current_model_id = target
         THEN pc' = [pc EXCEPT ![c] = IF c \in lock THEN "access" ELSE "idle"]
         ELSE pc' = [pc EXCEPT ![c] = "fetch"]
    /\ UNCHANGED <<request, response,
                   auto_unload, pipeline, current_model_id, last_access, lock,
                   unload_timer, unload_timeout, req, remaining, last>>

\* mutant of LoadModel: the already-loaded test is lost, every call loads
LoadModel_AlwaysLoads(c) ==
    /\ pc[c] = "load"
    /\ LET target == TargetModel(req[c]) IN
         IF pipeline # None /\ current_model_id # target
         THEN pc' = [pc EXCEPT ![c] = "sw_lock"]
         ELSE pc' = [pc EXCEPT ![c] = "fetch"]
    /\ UNCHANGED <<request, response,
                   auto_unload, pipeline, current_model_id, last_access, lock,
                   unload_timer, unload_timeout, req, remaining, last>>

\* _load_model, lines 52-62: switch, already loaded, or load
LoadModel(c) ==
    /\ pc[c] = "load"
    /\ LET target == TargetModel(req[c]) IN
         IF pipeline # None /\ current_model_id # target
         THEN pc' = [pc EXCEPT ![c] = "sw_lock"]       \* self.unload_model()
         ELSE IF pipeline # None
         THEN pc' = [pc EXCEPT ![c] = IF c \in lock THEN "access" ELSE "idle"]
         ELSE pc' = [pc EXCEPT ![c] = "fetch"]         \* from_pretrained begins
    /\ UNCHANGED <<request, response,
                   auto_unload, pipeline, current_model_id, last_access, lock,
                   unload_timer, unload_timeout, req, remaining, last>>

\* _load_model, lines 73-123: from_pretrained returns or raises, then the
\* placement on the accelerator succeeds or raises
LoadFinish(c, outcome) ==
    /\ pc[c] = "fetch"
    /\ CASE outcome = "ok" ->
              /\ pipeline' = TargetModel(req[c])
              /\ current_model_id' = TargetModel(req[c])
              /\ last_access' = <<0>>
              /\ pc' = [pc EXCEPT ![c] = IF c \in lock THEN "access" ELSE "idle"]
              /\ lock' = lock
              /\ last' = IF c \in lock THEN last ELSE "preload"
              /\ req' = req
         [] outcome = "fetch_error" ->
              /\ UNCHANGED <<pipeline, current_model_id, last_access>>
              /\ pc' = [pc EXCEPT ![c] = "idle"]
              /\ lock' = Release(c)
              /\ last' = IF c \in lock THEN "generate_error" ELSE "preload_error"
              /\ req' = [req EXCEPT ![c] = None]
         [] outcome = "place_error" ->
              /\ pipeline' = TargetModel(req[c])
              /\ current_model_id' = TargetModel(req[c])
              /\ last_access' = last_access
              /\ pc' = [pc EXCEPT ![c] = "idle"]
              /\ lock' = Release(c)
              /\ last' = IF c \in lock THEN "generate_error" ELSE "preload_error"
              /\ req' = [req EXCEPT ![c] = None]
    /\ UNCHANGED <<request, response,
                   auto_unload, unload_timer, unload_timeout, remaining>>

\* generate, lines 216-246: the access time is taken, the defaults and the
\* seed are resolved and the pipeline is called.  Line 220 reads
\* config.model_defaults, an attribute config.py does not set: where it is
\* absent the lookup raises after line 217 has run (ok = FALSE).
Access(c, ok) ==
    /\ pc[c] = "access"
    /\ last_access' = <<0>>
    /\ IF ok
       THEN /\ pc' = [pc EXCEPT ![c] = "synth"]
            /\ UNCHANGED <<lock, last, req>>
       ELSE /\ pc' = [pc EXCEPT ![c] = "idle"]
            /\ lock' = Release(c)
            /\ last' = "generate_error"
            /\ req' = [req EXCEPT ![c] = None]
    /\ UNCHANGED <<request, response,
                   auto_unload, pipeline, current_model_id, unload_timer,
                   unload_timeout, remaining>>

\* mutant of SynthesizeStep: a failing pipeline call leaves the lock held
SynthesizeStep_KeepsLock(c, ok, error) ==
    /\ pc[c] = "synth"
    /\ IF ok
       THEN /\ pc' = [pc EXCEPT ![c] = "sched"]
            /\ UNCHANGED <<lock, last, req>>
       ELSE /\ pc' = [pc EXCEPT ![c] = "idle"]
            /\ lock' = lock
            /\ last' = error
            /\ req' = [req EXCEPT ![c] = None]
    /\ UNCHANGED <<request, response, auto_unload, pipeline, current_model_id,
                   last_access, unload_timer, unload_timeout, remaining>>

\* generate, lines 246-291: the pipeline call and the save return or raise;
\* `error` is what the caller makes of the exception
SynthesizeStep(c, ok, error) ==
    /\ pc[c] = "synth"
    /\ IF ok
       THEN /\ pc' = [pc EXCEPT ![c] = "sched"]
            /\ UNCHANGED <<lock, last, req>>
       ELSE /\ pc' = [pc EXCEPT ![c] = "idle"]
            /\ lock' = Release(c)
            /\ last' = error
            /\ req' = [req EXCEPT ![c] = None]
    /\ UNCHANGED <<request, response, auto_unload, pipeline, current_model_id,
                   last_access, unload_timer, unload_timeout, remaining>>

Synthesize(c, ok) == SynthesizeStep(c, ok, "generate_error")

\* mutant of ScheduleUnload: the auto_unload flag is not tested
ScheduleUnload_IgnoresFlag(c) ==
    /\ pc[c] = "sched"
    /\ IF FALSE
       THEN /\ pc' = [pc EXCEPT ![c] = "idle"]
            /\ lock' = Release(c)
            /\ last' = "generate"
            /\ req' = [req EXCEPT ![c] = None]
       ELSE IF unload_timeout <= 0
       THEN /\ pc' = [Cancel(unload_timer, pc) EXCEPT ![c] = "idle"]
            /\ lock' = Release(c)
            /\ last' = "generate"
            /\ req' = [req EXCEPT ![c] = None]
       ELSE /\ pc' = [Cancel(unload_timer, pc) EXCEPT ![c] = "arm"]
            /\ UNCHANGED <<lock, last, req>>
    /\ remaining' = Waiting(pc', remaining)
    /\ UNCHANGED <<request, response,
                   auto_unload, pipeline, current_model_id, last_access,
                   unload_timer, unload_timeout>>

\* mutant of ScheduleUnload: the previous timer is not cancelled
ScheduleUnload_NoCancel(c) ==
    /\ pc[c] = "sched"
    /\ IF ~auto_unload
       THEN /\ pc' = [pc EXCEPT ![c] = "idle"]
            /\ lock' = Release(c)
            /\ last' = "generate"
            /\ req' = [req EXCEPT ![c] = None]
       ELSE IF unload_timeout <= 0
       THEN /\ pc' = [pc EXCEPT ![c] = "idle"]
            /\ lock' = Release(c)
            /\ last' = "generate"
            /\ req' = [req EXCEPT ![c] = None]
       ELSE /\ pc' = [pc EXCEPT ![c] = "arm"]
            /\ UNCHANGED <<lock, last, req>>
    /\ remaining' = Waiting(pc', remaining)
    /\ UNCHANGED <<request, response,
                   auto_unload, pipeline, current_model_id, last_access,
                   unload_timer, unload_timeout>>

\* _schedule_unload, lines 128-139; when nothing is to be armed generate
\* returns (296-306) and the lock is released
ScheduleUnload(c) ==
    /\ pc[c] = "sched"
    /\ IF ~auto_unload
       THEN /\ pc' = [pc EXCEPT ![c] = "idle"]
            /\ lock' = Release(c)
            /\ last' = "generate"
            /\ req' = [req EXCEPT ![c] = None]
       ELSE IF unload_timeout <= 0
       THEN /\ pc' = [Cancel(unload_timer, pc) EXCEPT ![c] = "idle"]
            /\ lock' = Release(c)
            /\ last' = "generate"
            /\ req' = [req EXCEPT ![c] = None]
       ELSE /\ pc' = [Cancel(unload_timer, pc) EXCEPT ![c] = "arm"]
            /\ UNCHANGED <<lock, last, req>>
    /\ remaining' = Waiting(pc', remaining)
    /\ UNCHANGED <<request, response,
                   auto_unload, pipeline, current_model_id, last_access,
                   unload_timer, unload_timeout>>

\* _schedule_unload, lines 141-144: a new Timer with the timeout read now is
\* started; generate returns (296-306) and the lock is released
ArmTimer(c) ==
    /\ pc[c] = "arm"
    /\ LET dropped == Collect({}, pc)
           free == {j \in TimerIds : dropped[j] = "free"}
       IN  /\ free # {}
           /\ LET n == CHOOSE j \in free : \A k \in free : j <= k IN
                /\ unload_timer' = {n}
                /\ remaining' = [Waiting(dropped, remaining) EXCEPT
                                     ![n] = unload_timeout]
                /\ pc' = [dropped EXCEPT ![n] = "pending", ![c] = "idle"]
    /\ lock' = Release(c)
    /\ last' = "generate"
    /\ req' = [req EXCEPT ![c] = None]
    /\ UNCHANGED <<request, response,
                   auto_unload, pipeline, current_model_id, last_access,
                   unload_timeout>>

\* ---------------------------------------------------------- unload_model
\* a client calls unload_model (server.py 237-238)
UnloadCall(c) ==
    /\ MayCall(c)
    /\ auto_unload
    /\ pc' = [pc EXCEPT ![c] = "unl_lock"]
    /\ UNCHANGED <<request, response,
                   auto_unload, pipeline, current_model_id, last_access, lock,
                   unload_timer, unload_timeout, req, remaining, last>>

\* mutant of UnloadEnter: unload_model proceeds without waiting for the lock
UnloadEnter_NoLock(t) ==
    /\ pc[t] \in {"unl_lock", "sw_lock"}
    /\ lock' = {t}
    /\ pc' = [pc EXCEPT ![t] = IF pc[t] = "sw_lock" THEN "sw_body" ELSE "unl_body"]
    /\ UNCHANGED <<request, response,
                   auto_unload, pipeline, current_model_id, last_access,
                   unload_timer, unload_timeout, req, remaining, last>>

\* `with self._lock:` of unload_model (153), for a client, for a timer
\* callback and for the call made by _load_model (57)
UnloadEnter(t) ==
    /\ pc[t] \in {"unl_lock", "sw_lock"}
    /\ lock = {}
    /\ lock' = {t}
    /\ pc' = [pc EXCEPT ![t] = IF pc[t] = "sw_lock" THEN "sw_body" ELSE "unl_body"]
    /\ UNCHANGED <<request, response,
                   auto_unload, pipeline, current_model_id, last_access,
                   unload_timer, unload_timeout, req, remaining, last>>

\* mutant of UnloadBody: without the test of 159-161 the release runs again
UnloadBody_NoEarlyReturn(t) ==
    /\ pc[t] \in {"unl_body", "sw_body"}
    /\ unload_timer' = {}
    /\ pipeline' = None
    /\ current_model_id' = None
    /\ last_access' = <<>>
    /\ pc' = [Collect({}, Cancel(unload_timer, pc)) EXCEPT
                 ![t] = IF pc[t] = "sw_body" THEN "fetch"
                        ELSE IF t \in Clients THEN "idle" ELSE "free"]
    /\ lock' = {}
    /\ last' = IF pc[t] = "sw_body" THEN last ELSE "unload"
    /\ remaining' = Waiting(pc', remaining)
    /\ UNCHANGED <<request, response, auto_unload, unload_timeout, req>>

\* mutant of UnloadBody: a second unload fails on the attribute the first deleted
UnloadBody_RaisesWhenUnloaded(t) ==
    /\ pc[t] \in {"unl_body", "sw_body"}
    /\ unload_timer' = {}
    /\ IF pipeline = None
       THEN UNCHANGED <<pipeline, current_model_id, last_access>>
       ELSE /\ pipeline' = None
            /\ current_model_id' = None
            /\ last_access' = <<>>
    /\ pc' = [Collect({}, Cancel(unload_timer, pc)) EXCEPT
                 ![t] = IF pc[t] = "sw_body" /\ pipeline # None THEN "fetch"
                        ELSE IF t \in Clients THEN "idle" ELSE "free"]
    /\ lock' = {}
    /\ last' = IF pipeline = None THEN "unload_error"
               ELSE IF pc[t] = "sw_body" THEN last
               ELSE "unload"
    /\ remaining' = Waiting(pc', remaining)
    /\ UNCHANGED <<request, response, auto_unload, unload_timeout, req>>

\* mutant of UnloadBody: the pending timer is not cancelled
UnloadBody_KeepsTimer(t) ==
    /\ pc[t] \in {"unl_body", "sw_body"}
    /\ unload_timer' = unload_timer
    /\ IF pipeline = None
       THEN UNCHANGED <<pipeline, current_model_id, last_access>>
       ELSE /\ pipeline' = None
            /\ current_model_id' = None
            /\ last_access' = <<>>
    /\ pc' = [pc EXCEPT
                 ![t] = IF pc[t] = "sw_body" THEN "fetch"
                        ELSE IF t \in Clients THEN "idle" ELSE "free"]
    /\ lock' = {}
    /\ last' = IF pc[t] = "sw_body" THEN last
               ELSE IF pipeline = None THEN "unload_noop" ELSE "unload"
    /\ remaining' = Waiting(pc', remaining)
    /\ UNCHANGED <<request, response, auto_unload, unload_timeout, req>>

\* mutant of UnloadBody: self._current_model_id is not cleared
UnloadBody_KeepsModelId(t) ==
    /\ pc[t] \in {"unl_body", "sw_body"}
    /\ unload_timer' = {}
    /\ IF pipeline = None
       THEN UNCHANGED <<pipeline, current_model_id, last_access>>
       ELSE /\ pipeline' = None
            /\ current_model_id' = current_model_id
            /\ last_access' = <<>>
    /\ pc' = [Collect({}, Cancel(unload_timer, pc)) EXCEPT
                 ![t] = IF pc[t] = "sw_body" THEN "fetch"
                        ELSE IF t \in Clients THEN "idle" ELSE "free"]
    /\ lock' = {}
    /\ last' = IF pc[t] = "sw_body" THEN last
               ELSE IF pipeline = None THEN "unload_noop" ELSE "unload"
    /\ remaining' = Waiting(pc', remaining)
    /\ UNCHANGED <<request, response, auto_unload, unload_timeout, req>>

\* unload_model, lines 154-179, and the release of the lock
UnloadBody(t) ==
    /\ pc[t] \in {"unl_body", "sw_body"}
    /\ unload_timer' = {}
    /\ IF pipeline = None
       THEN UNCHANGED <<pipeline, current_model_id, last_access>>
       ELSE /\ pipeline' = None
            /\ current_model_id' = None
            /\ last_access' = <<>>
    /\ pc' = [Collect({}, Cancel(unload_timer, pc)) EXCEPT
                 ![t] = IF pc[t] = "sw_body" THEN "fetch"
                        ELSE IF t \in Clients THEN "idle" ELSE "free"]
    /\ lock' = {}
    /\ last' = IF pc[t] = "sw_body" THEN last
               ELSE IF pipeline = None THEN "unload_noop" ELSE "unload"
    /\ remaining' = Waiting(pc', remaining)
    /\ UNCHANGED <<request, response, auto_unload, unload_timeout, req>>

\* ------------------------------------------------------------ the timer
\* the interval of a started timer has elapsed: _auto_unload runs in the
\* timer's thread and calls unload_model (146-149)
TimerFire(j) ==
    /\ pc[j] = "pending"
    /\ remaining[j] = 0
    /\ pc' = [pc EXCEPT ![j] = "unl_lock"]
    /\ UNCHANGED <<request, response,
                   auto_unload, pipeline, current_model_id, last_access, lock,
                   unload_timer, unload_timeout, req, remaining, last>>

\* one tick of time passes
Tick ==
    /\ \/ \E j \in PendingTimers : remaining[j] > 0
       \/ last_access # <<>> /\ last_access[1] < MaxTimeout
    /\ remaining' = [j \in TimerIds |->
                        IF pc[j] = "pending" /\ remaining[j] > 0
                        THEN remaining[j] - 1 ELSE remaining[j]]
    /\ last_access' = IF last_access # <<>> /\ last_access[1] < MaxTimeout
                      THEN <<last_access[1] + 1>> ELSE last_access
    /\ UNCHANGED <<request, response,
                   auto_unload, pipeline, current_model_id, lock, unload_timer,
                   unload_timeout, pc, req, last>>

\* ------------------------------------------------------------ get_status
\* the dictionary get_status builds (315-341); the VRAM figures are left out
GetStatus ==
    LET is_loaded == pipeline # None IN
    [ model_loaded |-> is_loaded,
      current_model |-> current_model_id,
      time_until_unload |->
          IF is_loaded /\ last_access # <<>>
          THEN <<IF unload_timeout - last_access[1] > 0
                 THEN unload_timeout - last_access[1] ELSE 0>>
          ELSE <<>>,
      timeout_seconds |-> unload_timeout,
      last_access |-> last_access ]

StatusCall(c) ==
    /\ MayCall(c)
    /\ auto_unload
    /\ pc' = [pc EXCEPT ![c] = "st_lock"]
    /\ UNCHANGED <<request, response,
                   auto_unload, pipeline, current_model_id, last_access, lock,
                   unload_timer, unload_timeout, req, remaining, last>>

\* mutant of StatusRead: reading the status counts as an access
StatusRead_CountsAsAccess(c) ==
    /\ pc[c] = "st_lock"
    /\ lock = {}
    /\ pc' = [pc EXCEPT ![c] = "idle"]
    /\ last_access' = IF pipeline # None THEN <<0>> ELSE last_access
    /\ UNCHANGED <<request, response,
                   auto_unload, pipeline, current_model_id, lock,
                   unload_timer, unload_timeout, req, remaining, last>>

\* get_status, lines 314-341: the snapshot is taken with the lock held
StatusRead(c) ==
    /\ pc[c] = "st_lock"
    /\ lock = {}
    /\ pc' = [pc EXCEPT ![c] = "idle"]
    /\ UNCHANGED <<request, response,
                   auto_unload, pipeline, current_model_id, last_access, lock,
                   unload_timer, unload_timeout, req, remaining, last>>

\* ----------------------------------------------------------- set_timeout
\* mutant of SetTimeout: a timeout of 0 also cancels the pending timer
SetTimeout_CancelsTimer(c, seconds) ==
    /\ MayCall(c)
    /\ auto_unload
    /\ unload_timeout' = IF seconds < 0 THEN unload_timeout ELSE seconds
    /\ pc' = IF seconds = 0 THEN Cancel(unload_timer, pc) ELSE pc
    /\ remaining' = Waiting(pc', remaining)
    /\ UNCHANGED <<request, response,
                   auto_unload, pipeline, current_model_id, last_access, lock,
                   unload_timer, req, last>>

\* server.py 280-297 with Config.update_timeout (config.py 48-56)
SetTimeout(c, seconds) ==
    /\ MayCall(c)
    /\ auto_unload
    /\ IF seconds < 0
       THEN UNCHANGED unload_timeout
       ELSE unload_timeout' = seconds
    /\ UNCHANGED <<request, response,
                   auto_unload, pipeline, current_model_id, last_access, lock,
                   unload_timer, pc, req, remaining, last>>

\* ------------------------------------------------------------------ CLI
\* cli.py 168-173: _generate_image loads the model itself when none is loaded
CliPreload(c) ==
    /\ MayCall(c)
    /\ ~auto_unload
    /\ pipeline = None
    /\ pc' = [pc EXCEPT ![c] = "load"]
    /\ req' = [req EXCEPT ![c] = None]
    /\ UNCHANGED <<request, response,
                   auto_unload, pipeline, current_model_id, last_access, lock,
                   unload_timer, unload_timeout, remaining, last>>

Next ==
    \/ \E c \in Clients, m \in Requests : GenerateCall(c, m)
    \/ \E c \in Clients : GenerateEnter(c)
    \/ \E c \in Clients : LoadModel(c)
    \/ \E c \in Clients, o \in {"ok", "fetch_error", "place_error"} : LoadFinish(c, o)
    \/ \E c \in Clients, ok \in BOOLEAN : Access(c, ok)
    \/ \E c \in Clients, ok \in BOOLEAN : Synthesize(c, ok)
    \/ \E c \in Clients : ScheduleUnload(c)
    \/ \E c \in Clients : ArmTimer(c)
    \/ \E c \in Clients : UnloadCall(c)
    \/ \E t \in Threads : UnloadEnter(t)
    \/ \E t \in Threads : UnloadBody(t)
    \/ \E j \in TimerIds : TimerFire(j)
    \/ Tick
    \/ \E c \in Clients : StatusCall(c)
    \/ \E c \in Clients : StatusRead(c)
    \/ \E c \in Clients, s \in -1..MaxTimeout : SetTimeout(c, s)
    \/ \E c \in Clients : CliPreload(c)

Spec == Init /\ [][Next]_vars

\* ------------------------------------------------------------ server.py
\* call_tool is a coroutine of the server's one event loop and calls the
\* generator synchronously: the loop thread handles one tool call at a time,
\* the timer threads run beside it
ServerThread == 1

\* the bounds server.py 142 and 145 test
MinSteps == 1
MaxSteps == 100
MinDimension == 256
MaxDimension == 2048

\* str.strip(): leading and trailing white space is removed
RECURSIVE LStrip(_)
LStrip(s) == IF s # <<>> /\ Head(s) = " " THEN LStrip(Tail(s)) ELSE s

RECURSIVE RStrip(_)
RStrip(s) ==
    IF s # <<>> /\ s[Len(s)] = " " THEN RStrip(SubSeq(s, 1, Len(s) - 1)) ELSE s

Strip(s) == RStrip(LStrip(s))

\* the arguments of a generate_image call: prompts as sequences of characters
Prompts == {<<>>, <<" ">>, <<"a">>, <<" ", "a">>}
StepCounts == {MinSteps - 1, MinSteps, MaxSteps, MaxSteps + 1}
Dimensions == {MinDimension - 4, MinDimension, MaxDimension \div 2 - 1,
               MaxDimension \div 2, MaxDimension, 2 * MaxDimension}
\* every prompt, every step count and every pair of dimensions occurs, each
\* with the other arguments valid
ToolArguments ==
    [prompt : Prompts, model : DOMAIN models, steps : {MinSteps},
     width : {MinDimension}, height : {MinDimension}]
    \cup [prompt : {<<"a">>}, model : DOMAIN models, steps : StepCounts,
          width : {MinDimension}, height : {MinDimension}]
    \cup [prompt : {<<"a">>}, model : DOMAIN models, steps : {MinSteps},
          width : Dimensions, height : Dimensions]

\* server.py 138-150: the text of the error the validation returns, None
\* when the arguments pass
ServerValidation(a) ==
    IF Strip(a.prompt) = <<>> THEN "Error: Prompt cannot be empty"
    ELSE IF a.steps < MinSteps \/ a.steps > MaxSteps
    THEN "Error: Steps must be between 1 and 100"
    ELSE IF \/ a.width < MinDimension \/ a.width > MaxDimension
            \/ a.height < MinDimension \/ a.height > MaxDimension
    THEN "Error: Width and height must be between 256 and 2048"
    ELSE None

\* mutant of GenerateImageTool: generate is called before the arguments are
\* validated
GenerateImageTool_ValidatesLate(a) ==
    /\ MayCall(ServerThread)
    /\ auto_unload
    /\ pc' = [pc EXCEPT ![ServerThread] = "gen_lock"]
    /\ req' = [req EXCEPT ![ServerThread] = a.model]
    /\ last' = IF ServerValidation(a) # None THEN "rejected" ELSE last
    /\ UNCHANGED <<request, response,
                   auto_unload, pipeline, current_model_id, last_access, lock,
                   unload_timer, unload_timeout, remaining>>

\* call_tool, generate_image (server.py 128-235): invalid arguments are
\* answered with the error text, valid ones go to generator.generate (182)
GenerateImageTool(a) ==
    /\ MayCall(ServerThread)
    /\ auto_unload
    /\ IF ServerValidation(a) # None
       THEN /\ last' = "rejected"
            /\ UNCHANGED <<request, response,
                           auto_unload, pipeline, current_model_id, last_access,
                           lock, unload_timer, unload_timeout, pc, req,
                           remaining>>
       ELSE GenerateCall(ServerThread, a.model)

\* mutant of SetTimeoutTool: a negative value is stored like any other
SetTimeoutTool_StoresNegative(seconds) ==
    /\ MayCall(ServerThread)
    /\ auto_unload
    /\ unload_timeout' = seconds
    /\ last' = IF seconds < 0 THEN "timeout_rejected" ELSE "timeout_set"
    /\ UNCHANGED <<request, response,
                   auto_unload, pipeline, current_model_id, last_access, lock,
                   unload_timer, pc, req, remaining>>

\* call_tool, set_timeout (server.py 280-297) with Config.update_timeout
\* (config.py 48-56); the answer is kept in `last`
SetTimeoutTool(seconds) ==
    /\ MayCall(ServerThread)
    /\ auto_unload
    /\ IF seconds < 0
       THEN /\ UNCHANGED unload_timeout
            /\ last' = "timeout_rejected"
       ELSE /\ unload_timeout' = seconds
            /\ last' = "timeout_set"
    /\ UNCHANGED <<request, response,
                   auto_unload, pipeline, current_model_id, last_access, lock,
                   unload_timer, pc, req, remaining>>

\* the pipeline call of a generate_image tool call: an exception it raises
\* leaves generate and is answered by the handler of server.py 302-304 with
\* its message
SynthesizeTool(ok) == SynthesizeStep(ServerThread, ok, "synthesis_error")

\* server.py 24: the server's generator is FluxGenerator(), auto_unload True
ServerInit == Init /\ auto_unload

ServerNext ==
    \/ \E a \in ToolArguments : GenerateImageTool(a)
    \/ GenerateEnter(ServerThread)
    \/ LoadModel(ServerThread)
    \/ \E o \in {"ok", "fetch_error", "place_error"} : LoadFinish(ServerThread, o)
    \/ \E ok \in BOOLEAN : Access(ServerThread, ok)
    \/ \E ok \in BOOLEAN : SynthesizeTool(ok)
    \/ ScheduleUnload(ServerThread)
    \/ ArmTimer(ServerThread)
    \/ UnloadCall(ServerThread)
    \/ \E t \in {ServerThread} \cup TimerIds : UnloadEnter(t)
    \/ \E t \in {ServerThread} \cup TimerIds : UnloadBody(t)
    \/ \E j \in TimerIds : TimerFire(j)
    \/ Tick
    \/ StatusCall(ServerThread)
    \/ StatusRead(ServerThread)
    \/ \E s \in -1..MaxTimeout : SetTimeoutTool(s)

ServerSpec == ServerInit /\ [][ServerNext]_vars

\* ---------------------------------------- a request through a front end
\* The path of one generate request from the place it enters (the server
\* tool, the CLI command, the CLI's interactive mode, a direct call of
\* FluxGenerator.generate) to the result.  An optional value is <<>> when
\* absent and <<v>> when given; guidance is counted in tenths.
DimensionStep == 8          \* cli.py 28, 291
default_steps == 50         \* config.py 42
default_guidance == 75      \* config.py 43: 7.5
ServerSteps == 50           \* server.py 132
ServerGuidance == 75        \* server.py 133: 7.5
CliSteps == 28              \* cli.py 47, 276
CliGuidance == 35           \* cli.py 54, 279: 3.5

\* generator.py 228 draws from 0 .. 2**32 - 2 (the upper bound of
\* torch.randint is exclusive); the model keeps SeedBits bits of the 32
SeedBits == 4
SeedLimit == 2 ^ SeedBits - 1
Draws == 0..(SeedLimit - 1)
Seeds == {<<>>, <<0>>, <<1>>, <<SeedLimit>>}

Paths == {"server", "cli", "interactive", "direct"}

\* config.model_defaults as generator.py 220-224 uses it: a mapping from a
\* model id to a dict that may hold "steps" and "guidance".  config.py does
\* not define the attribute: <<>> stands for its absence, <<m>> for mapping m.
ModelDefaultsValues ==
    {<<>>,
     <<[v \in {} |-> [steps |-> <<>>, guidance |-> <<>>]]>>,
     <<[v \in {models["flux1-dev"]} |-> [steps |-> <<20>>, guidance |-> <<>>]]>>}

\* the requests followed: every pair of dimensions, every prompt, and every
\* combination of given and omitted steps, guidance, seed and model
RequestInputs ==
    [path : Paths, prompt : {<<"a">>}, model : {None}, steps : {<<>>},
     guidance : {<<>>}, width : Dimensions, height : Dimensions,
     seed : {<<>>}, model_defaults : {<<[v \in {} |-> 0]>>}]
    \cup [path : Paths, prompt : Prompts, model : {None}, steps : {<<>>},
          guidance : {<<>>}, width : {MinDimension}, height : {MinDimension},
          seed : {<<>>}, model_defaults : {<<[v \in {} |-> 0]>>}]
    \cup [path : Paths, prompt : {<<"a">>}, model : {None, "flux1-dev"},
          steps : {<<>>, <<MinSteps>>}, guidance : {<<>>, <<20>>},
          width : {MinDimension}, height : {MinDimension},
          seed : Seeds, model_defaults : ModelDefaultsValues]

\* str(n) for n >= 0, as the sequence of its decimal digits
RECURSIVE Decimal(_)
Decimal(n) == IF n < 10 THEN <<n>> ELSE Append(Decimal(n \div 10), n % 10)

\* the answer to a request that does not reach generate()
Rejected(text) == [status |-> "rejected", error |-> text]

\* mutant of GenerateResult: the seed is tested for truth, not for None
GenerateResult_FalsySeed(a, defaults, draw) ==
    IF defaults = <<>>
    THEN [status |-> "error", error |-> "AttributeError: model_defaults"]
    ELSE
    LET variant == TargetModel(a.model)
        per == IF variant \in DOMAIN defaults[1] THEN defaults[1][variant]
               ELSE [steps |-> <<>>, guidance |-> <<>>]
        steps == IF a.steps # <<>> THEN a.steps[1]
                 ELSE IF per.steps # <<>> THEN per.steps[1] ELSE default_steps
        guidance_scale ==
            IF a.guidance # <<>> THEN a.guidance[1]
            ELSE IF per.guidance # <<>> THEN per.guidance[1] ELSE default_guidance
        seed == IF a.seed = <<>> \/ a.seed = <<0>> THEN draw ELSE a.seed[1]
    IN  [status |-> "ok",
         engine |-> [prompt |-> a.prompt, num_inference_steps |-> steps,
                     guidance_scale |-> guidance_scale, width |-> a.width,
                     height |-> a.height, manual_seed |-> seed],
         seed |-> seed,
         settings |-> [prompt |-> a.prompt, steps |-> steps,
                       guidance_scale |-> guidance_scale, width |-> a.width,
                       height |-> a.height],
         metadata |-> [prompt |-> a.prompt, seed |-> seed, steps |-> steps,
                       guidance_scale |-> guidance_scale, width |-> a.width,
                       height |-> a.height, model |-> variant],
         png_text |-> [seed |-> Decimal(seed), steps |-> Decimal(steps),
                       model |-> variant]]

\* FluxGenerator.generate, lines 207-306, with a load and a pipeline call
\* that succeed: the model id (208-214), the defaults (219-224), the seed
\* (226-235), the pipeline call (246-255), the metadata (262-285) and the
\* returned tuple (296-306)
GenerateResult(a, defaults, draw) ==
    IF defaults = <<>>
    THEN [status |-> "error", error |-> "AttributeError: model_defaults"]
    ELSE
    LET variant == TargetModel(a.model)
        per == IF variant \in DOMAIN defaults[1] THEN defaults[1][variant]
               ELSE [steps |-> <<>>, guidance |-> <<>>]
        steps == IF a.steps # <<>> THEN a.steps[1]
                 ELSE IF per.steps # <<>> THEN per.steps[1] ELSE default_steps
        guidance_scale ==
            IF a.guidance # <<>> THEN a.guidance[1]
            ELSE IF per.guidance # <<>> THEN per.guidance[1] ELSE default_guidance
        seed == IF a.seed = <<>> THEN draw ELSE a.seed[1]
    IN  [status |-> "ok",
         engine |-> [prompt |-> a.prompt, num_inference_steps |-> steps,
                     guidance_scale |-> guidance_scale, width |-> a.width,
                     height |-> a.height, manual_seed |-> seed],
         seed |-> seed,
         settings |-> [prompt |-> a.prompt, steps |-> steps,
                       guidance_scale |-> guidance_scale, width |-> a.width,
                       height |-> a.height],
         metadata |-> [prompt |-> a.prompt, seed |-> seed, steps |-> steps,
                       guidance_scale |-> guidance_scale, width |-> a.width,
                       height |-> a.height, model |-> variant],
         png_text |-> [seed |-> Decimal(seed), steps |-> Decimal(steps),
                       model |-> variant]]

\* server.py 130-136: the arguments call_tool extracts, with its defaults
ServerArguments(r) ==
    [prompt |-> r.prompt,
     model |-> IF r.model = None THEN "flux2-dev" ELSE r.model,
     steps |-> IF r.steps = <<>> THEN ServerSteps ELSE r.steps[1],
     guidance |-> IF r.guidance = <<>> THEN ServerGuidance ELSE r.guidance[1],
     width |-> r.width, height |-> r.height, seed |-> r.seed]

\* call_tool, generate_image (server.py 128-235, 302-304)
ServerOutcome(r, draw) ==
    LET a == ServerArguments(r) IN
    IF ServerValidation(a) # None THEN Rejected(ServerValidation(a))
    ELSE GenerateResult([a EXCEPT !.steps = <<a.steps>>,
                                  !.guidance = <<a.guidance>>],
                        r.model_defaults, draw)

\* cli.py 26-32: the click callback of --width and --height
validate_dimensions(value) ==
    IF value % DimensionStep # 0 THEN "must be a multiple of 8"
    ELSE IF value < MinDimension \/ value > MaxDimension
    THEN "must be between 256 and 2048"
    ELSE None

\* what the CLI passes to generate (cli.py 193-200): no model, the steps
\* and the guidance of the options or their defaults (47, 54, 276, 279)
CliArguments(r, prompt) ==
    [prompt |-> prompt, model |-> None,
     steps |-> IF r.steps = <<>> THEN <<CliSteps>> ELSE r.steps,
     guidance |-> IF r.guidance = <<>> THEN <<CliGuidance>> ELSE r.guidance,
     width |-> r.width, height |-> r.height, seed |-> r.seed]

\* the generate command (cli.py 39-157): the option callbacks, the prompt
\* test of line 141, then _generate_image
CliOutcome(r, draw) ==
    IF validate_dimensions(r.width) # None
    THEN Rejected(validate_dimensions(r.width))
    ELSE IF validate_dimensions(r.height) # None
    THEN Rejected(validate_dimensions(r.height))
    ELSE IF r.prompt = <<>> THEN Rejected("Error: Prompt is required")
    ELSE GenerateResult(CliArguments(r, r.prompt), r.model_defaults, draw)

\* one round of _interactive_mode (cli.py 262-311)
InteractiveOutcome(r, draw) ==
    IF Strip(r.prompt) = <<>> THEN Rejected("Prompt cannot be empty")
    ELSE IF r.width % DimensionStep # 0 \/ r.height % DimensionStep # 0
    THEN Rejected("Width and height must be multiples of 8")
    ELSE IF \/ r.width < MinDimension \/ r.width > MaxDimension
            \/ r.height < MinDimension \/ r.height > MaxDimension
    THEN Rejected("Dimensions must be between 256 and 2048")
    ELSE GenerateResult(CliArguments(r, Strip(r.prompt)), r.model_defaults, draw)

\* a caller of FluxGenerator.generate itself (generator.py 181-190)
DirectOutcome(r, draw) ==
    GenerateResult([prompt |-> r.prompt, model |-> r.model, steps |-> r.steps,
                    guidance |-> r.guidance, width |-> r.width,
                    height |-> r.height, seed |-> r.seed],
                   r.model_defaults, draw)

generator_vars == <<auto_unload, pipeline, current_model_id, last_access, lock,
                    unload_timer, unload_timeout, pc, req, remaining, last>>

ServerHandles ==
    /\ request.path = "server"
    /\ response.status = "none"
    /\ \E draw \in Draws : response' = ServerOutcome(request, draw)
    /\ UNCHANGED <<request, generator_vars>>

CliHandles ==
    /\ request.path = "cli"
    /\ response.status = "none"
    /\ \E draw \in Draws : response' = CliOutcome(request, draw)
    /\ UNCHANGED <<request, generator_vars>>

InteractiveHandles ==
    /\ request.path = "interactive"
    /\ response.status = "none"
    /\ \E draw \in Draws : response' = InteractiveOutcome(request, draw)
    /\ UNCHANGED <<request, generator_vars>>

DirectHandles ==
    /\ request.path = "direct"
    /\ response.status = "none"
    /\ \E draw \in Draws : response' = DirectOutcome(request, draw)
    /\ UNCHANGED <<request, generator_vars>>

\* the generator of the path's front end (server.py 24, cli.py 166, 258)
\* and one request
RequestInit ==
    /\ GeneratorInit
    /\ request \in RequestInputs
    /\ auto_unload = (request.path \in {"server", "direct"})
    /\ response = NoResponse

RequestNext ==
    \/ ServerHandles
    \/ CliHandles
    \/ InteractiveHandles
    \/ DirectHandles

RequestSpec == RequestInit /\ [][RequestNext]_vars

\* ================================================================ claims
\* the positions of a generate call between its call and its return
InGenerate(c) ==
    pc[c] \in {"gen_lock", "load", "sw_lock", "sw_body", "fetch", "access",
               "synth", "sched", "arm"} /\ (c \in lock \/ pc[c] = "gen_lock")

\* thread t returns from unload_model in this step
UnloadReturns(t) == pc[t] = "unl_body" /\ pc'[t] # "unl_body"

\* the step a thread holding the lock takes next
HolderStep(t) ==
    \/ LoadModel(t)
    \/ \E o \in {"ok", "fetch_error", "place_error"} : LoadFinish(t, o)
    \/ \E ok \in BOOLEAN : Access(t, ok)
    \/ \E ok \in BOOLEAN : Synthesize(t, ok)
    \/ ScheduleUnload(t)
    \/ ArmTimer(t)
    \/ UnloadEnter(t)
    \/ UnloadBody(t)

\* C1: a generate for variant B that finds variant A loaded performs the
\* unload of A (and then the load of B and the synthesis): the unload_model
\* call it has made is able to enter and run.
C1_SwitchUnloadsThenLoads ==
    \A c \in Clients : pc[c] = "sw_lock" => ENABLED UnloadEnter(c)

\* C2: every generate call releases the exclusive section and returns: the
\* thread inside the section always has a step to take, so the section is
\* never held by a thread that cannot go on.
C2_SectionIsReleased ==
    \A t \in Threads : t \in lock => ENABLED HolderStep(t)

\* C3: the pipeline call never executes for two generate requests at once.
C3_MutualExclusion ==
    Cardinality({c \in Clients : pc[c] = "synth"}) <= 1

C3_Witness ==
    \E c, d \in Clients : pc[c] = "synth" /\ pc[d] = "gen_lock"

\* C4: at most one pipeline instance is resident in every reachable state; a
\* new instance is built only when self.pipeline holds none.
C4_SingleResidency ==
    /\ Resident <= 1
    /\ \A c \in Clients : pc[c] = "fetch" => pipeline = None

C4_Witness ==
    \E c \in Clients :
        /\ pc[c] = "fetch"
        /\ last = "unload"
        /\ \E t \in Threads \ {c} : pc[t] \in {"gen_lock", "unl_lock"}

\* C5: a timer-triggered unload removes the resource only once the timeout
\* armed by the most recent generate has elapsed: a timer callback never
\* unloads while the timer a later generate armed is still counting down.
C5_NoEarlyEviction ==
    [][\A j \in TimerIds :
          (UnloadReturns(j) /\ pipeline # None)
              => \A k \in PendingTimers : remaining[k] = 0]_vars

\* C6: a resource that is loaded with auto_unload enabled and a positive idle
\* timeout is evicted by the timer when no generate arrives, also after a
\* generate that raised once the model was loaded and accessed: whenever no
\* generate is in progress, a timer is pending or its callback is running.
C6_EvictionIsScheduled ==
    (/\ auto_unload
     /\ unload_timeout > 0
     /\ pipeline # None
     /\ last_access # <<>>
     /\ \A c \in Clients : ~InGenerate(c))
        => LiveTimers # {}

\* C7: a generate that finds its variant loaded skips the load, and a load
\* begins only when nothing is loaded: between two unloads one load happens.
C7_LoadOnce ==
    [][\A c \in Clients :
          /\ (pc[c] = "load" /\ pc'[c] # "load" /\ pipeline # None
                /\ current_model_id = TargetModel(req[c]))
                => (pc'[c] \in {"access", "idle"} /\ pipeline' = pipeline)
          /\ (pc[c] # "fetch" /\ pc'[c] = "fetch") => pipeline = None]_vars

C7_Witness ==
    \E c \in Clients : pc[c] = "access" /\ last = "generate"

\* C8: unload_model on an unloaded generator returns normally and leaves the
\* loaded flag, the loaded variant, the access time and the pending timers as
\* they were; after any unload the generator is unloaded, so a second unload
\* changes nothing.
C8_IdempotentUnload ==
    [][\A t \in Threads :
          UnloadReturns(t) =>
              /\ pipeline' = None
              /\ pipeline = None =>
                    /\ current_model_id' = current_model_id
                    /\ last_access' = last_access
                    /\ PendingTimers' = PendingTimers
                    /\ unload_timer' = unload_timer
                    /\ last' = "unload_noop"]_vars

C8_Witness ==
    last = "unload_noop" /\ pipeline = None /\ lock = {}

\* C9: when unload_model returns, no pipeline is resident, the loaded variant
\* and the access time are cleared, no timer is pending and get_status
\* reports model_loaded = false.
C9_UnloadPostcondition ==
    [][\A t \in Threads :
          UnloadReturns(t) =>
              /\ pipeline' = None
              /\ current_model_id' = None
              /\ last_access' = <<>>
              /\ PendingTimers' = {}
              /\ unload_timer' = {}
              /\ GetStatus'.model_loaded = FALSE]_vars

C9_Witness ==
    last = "unload" /\ pipeline = None /\ lock = {}

\* C10: whenever the lock is free, the loaded variant is None exactly when no
\* pipeline is resident, and the access time is set only when a variant is
\* loaded; get_status returns such a snapshot.
C10_HandleInvariant ==
    lock = {} =>
        /\ (current_model_id = None) <=> (pipeline = None)
        /\ last_access # <<>> => current_model_id # None
        /\ (GetStatus.current_model = None) <=> ~GetStatus.model_loaded
        /\ GetStatus.last_access # <<>> => GetStatus.current_model # None

C10_Witness ==
    /\ lock = {}
    /\ last = "generate"
    /\ GetStatus.model_loaded
    /\ GetStatus.last_access # <<>>

\* ------------------------------------------------------- claims C11 - C20
\* client c returns from a generate call that succeeded, in this step
GenerateReturns(c) == pc[c] \in {"sched", "arm"} /\ pc'[c] = "idle"

\* C11: when a generate on a generator with auto_unload returns successfully,
\* an eviction timer is pending exactly if the timeout configured at that
\* moment is positive; with the timeout at 0 none is scheduled.
C11_RearmOnSuccess ==
    [][\A c \in Clients :
          auto_unload /\ GenerateReturns(c) =>
              (PendingTimers' # {} <=> unload_timeout' > 0)]_vars

\* C12: a set_timeout call with a negative value is answered with an error
\* and leaves the configured timeout, the handle (pipeline, variant, access
\* time) and the pending timer as they were; a call with a value >= 0
\* succeeds and stores exactly that value.
C12_TimeoutValidation ==
    [][\A s \in -1..MaxTimeout :
          SetTimeoutTool(s) =>
              IF s < 0
              THEN /\ last' = "timeout_rejected"
                   /\ UNCHANGED <<unload_timeout, pipeline, current_model_id,
                                  last_access, unload_timer, remaining>>
                   /\ PendingTimers' = PendingTimers
              ELSE /\ last' = "timeout_set"
                   /\ unload_timeout' = s]_vars

\* a negative timeout has just been refused while a model is loaded and its
\* eviction timer is pending
C12_Witness ==
    /\ last = "timeout_rejected"
    /\ pipeline # None
    /\ \E j \in unload_timer : pc[j] = "pending"

StatusReturns(c) == pc[c] = "st_lock" /\ pc'[c] = "idle"

\* C14: the time until eviction that get_status returns is
\* max(0, timeout - seconds since the last access) when a model is loaded and
\* eviction is enabled, and None when the timeout is 0 or nothing is loaded.
C14_StatusCountdown ==
    [][\A c \in Clients :
          StatusReturns(c) =>
              /\ pipeline # None /\ unload_timeout > 0 /\ last_access # <<>> =>
                     GetStatus.time_until_unload =
                         <<IF unload_timeout > last_access[1]
                           THEN unload_timeout - last_access[1] ELSE 0>>
              /\ pipeline = None \/ unload_timeout = 0 =>
                     GetStatus.time_until_unload = <<>>]_vars

\* C15: when a generate returns successfully the access time it leaves is the
\* time of its return: a get_status taken at once reports the full
\* configured timeout as time until eviction.
C15_FullCountdownAfterGenerate ==
    [][\A c \in Clients :
          GenerateReturns(c) /\ auto_unload /\ unload_timeout' > 0 =>
              GetStatus'.time_until_unload = <<unload_timeout'>>]_vars

\* a width or height the specification excludes
BadDimension(v) ==
    v % DimensionStep # 0 \/ v < MinDimension \/ v > MaxDimension

\* C16: on every path (server tool, CLI command, interactive mode, direct
\* call) a request whose width or height is not a multiple of 8 or lies
\* outside [256, 2048] is rejected and never reaches the pipeline call.
C16_ValidationBoundaries ==
    /\ response.status # "none"
    /\ BadDimension(request.width) \/ BadDimension(request.height)
    => response.status = "rejected"

\* C17: a tool call that validation refuses (blank prompt, steps or a
\* dimension out of range, negative timeout) leaves the pipeline, the loaded
\* variant, the access time, the timer and its interval and the configured
\* timeout as they were, and no thread starts a load.
C17_RejectionFrame ==
    [][last' # last /\ last' \in {"rejected", "timeout_rejected"}
       => UNCHANGED <<pipeline, current_model_id, last_access, unload_timer,
                      unload_timeout, remaining, pc, lock, req>>]_vars

\* a generate_image call has just been refused while a model is loaded and
\* its eviction timer is pending
C17_Witness ==
    /\ last = "rejected"
    /\ pipeline # None
    /\ \E j \in unload_timer : pc[j] = "pending" /\ remaining[j] > 0

\* the default of field f ("steps" or "guidance") for the loaded variant:
\* the variant's own when config.model_defaults holds one, the global otherwise
VariantDefault(r, variant, f, global) ==
    IF /\ r.model_defaults # <<>>
       /\ variant \in DOMAIN r.model_defaults[1]
       /\ r.model_defaults[1][variant][f] # <<>>
    THEN r.model_defaults[1][variant][f][1]
    ELSE global

\* C18: every call of generate completes with concrete steps and guidance:
\* the value of the call when it gave one, else the default of the loaded
\* variant, else the global default.
C18_ResolutionOrder ==
    request.path = "direct" /\ response.status # "none" =>
        /\ response.status = "ok"
        /\ response.settings.steps =
               IF request.steps # <<>> THEN request.steps[1]
               ELSE VariantDefault(request, response.metadata.model,
                                   "steps", default_steps)
        /\ response.settings.guidance_scale =
               IF request.guidance # <<>> THEN request.guidance[1]
               ELSE VariantDefault(request, response.metadata.model,
                                   "guidance", default_guidance)

\* C19: a completed generate returns the seed the request gave, 0 included;
\* when the request gave none the seed returned lies in 0 .. 2^SeedBits - 1;
\* in both cases the seed returned is the one the engine's generator was
\* seeded with and the one written to the metadata.
C19_SeedSurfacing ==
    response.status = "ok" =>
        /\ request.seed # <<>> => response.seed = request.seed[1]
        /\ request.seed = <<>> => response.seed \in 0..SeedLimit
        /\ response.engine.manual_seed = response.seed
        /\ response.metadata.seed = response.seed
        /\ response.png_text.seed = Decimal(response.seed)

\* a request with seed 0 has completed
C19_Witness ==
    /\ response.status = "ok"
    /\ request.seed = <<0>>
    /\ response.metadata.seed = 0

\* C20: when the pipeline call of a generate raises, generate ends with the
\* error, the lock is free again, the pipeline stays loaded under the same
\* variant and the caller is free to make its next call.
C20_SynthesisFailure ==
    [][\A c \in Clients :
          pc[c] = "synth" /\ pc'[c] \notin {"synth", "sched"} =>
              /\ pc'[c] = "idle"
              /\ last' = "synthesis_error"
              /\ lock' = {}
              /\ pipeline' # None
              /\ pipeline' = pipeline
              /\ current_model_id' = current_model_id
              /\ current_model_id' = pipeline']_vars

\* a pipeline call has failed: the model is still loaded and the lock is
\* free for the next generate, unload_model or get_status
C20_Witness ==
    /\ last = "synthesis_error"
    /\ pipeline # None
    /\ current_model_id = pipeline
    /\ lock = {}
    /\ pc[ServerThread] = "idle"

\* ------------------------------------------------------- claims C21 - C30
\* the load thread c is making fails in this step
LoadFails(c) ==
    /\ pc[c] = "fetch"
    /\ pc'[c] = "idle"
    /\ last' \in {"generate_error", "preload_error"}

\* C21: when a load fails, at whichever step of _load_model, no pipeline is
\* resident afterwards, the loaded variant is None and get_status reports
\* model_loaded false.
C21_LoadFailureUnloads ==
    [][\A c \in Clients :
          LoadFails(c) =>
              /\ pipeline' = None
              /\ current_model_id' = None
              /\ ~GetStatus'.model_loaded]_vars

\* C22: on a generator created with auto_unload = False no timer object
\* exists in any reachable state, whatever the configured timeout, and a
\* loaded pipeline stays loaded.
C22_NoTimerWithoutAutoUnload ==
    ~auto_unload =>
        /\ unload_timer = {}
        /\ \A j \in TimerIds : pc[j] = "free"
        /\ last \in {"preload", "generate"} => pipeline # None

\* a generate has succeeded on such a generator with a positive timeout
C22_Witness ==
    /\ ~auto_unload
    /\ unload_timeout > 0
    /\ last = "generate"
    /\ pipeline # None

\* C23: in every reachable state at most one timer is started and not yet
\* fired or cancelled, and it is the one self._unload_timer refers to.
C23_OnePendingTimer ==
    /\ Cardinality(PendingTimers) <= 1
    /\ PendingTimers \subseteq unload_timer

\* a generate has re-armed: its new timer is pending while the callback of
\* an earlier timer, which had fired, still waits for the lock
C23_Witness ==
    /\ last = "generate"
    /\ PendingTimers # {}
    /\ \E j \in TimerIds : pc[j] = "unl_lock"

\* C24: every step that changes the resident pipeline, the loaded variant or
\* the timer reference is taken by a thread that holds the generator's lock.
C24_ModifiedUnderLock ==
    [][(\/ pipeline' # pipeline
        \/ current_model_id' # current_model_id
        \/ unload_timer' # unload_timer) => lock # {}]_vars

\* thread c is inside the exclusive section of generate
InExclusiveSection(c) ==
    pc[c] \in {"load", "sw_lock", "sw_body", "fetch", "access", "synth",
               "sched", "arm"}

\* C25: the step in which a timer callback releases the pipeline is never
\* taken while a generate is between acquiring and releasing the lock.
C25_EvictionWaitsForGenerate ==
    [][\A j \in TimerIds :
          (pc[j] = "unl_body" /\ pipeline # None /\ pipeline' = None) =>
              \A c \in Clients : ~InExclusiveSection(c)]_vars

\* a timer has fired and its callback waits for the lock a generate holds
C25_Witness ==
    \E j \in TimerIds, c \in Clients :
        /\ pc[j] = "unl_lock"
        /\ pc[c] = "synth"
        /\ lock = {c}
        /\ pipeline # None

\* a timer callback and a caller's unload_model race: one of t, u is a timer
\* thread, the other a client, t is in the body and u waits for the lock
UnloadRace(t, u) ==
    /\ (t \in TimerIds) # (u \in TimerIds)
    /\ pc[t] = "unl_body"
    /\ pc[u] = "unl_lock"

\* C26: of a timer callback and a manual unload_model that race, the first
\* to obtain the lock returns normally with the pipeline released while the
\* other still waits, and an unload_model that follows a release finds the
\* generator unloaded, releases nothing and returns normally.
C26_RacingUnloads ==
    [][\A t \in Threads :
          UnloadReturns(t) =>
              /\ \A u \in Threads :
                    UnloadRace(t, u) =>
                        /\ pipeline' = None
                        /\ last' = IF pipeline = None THEN "unload_noop" ELSE "unload"
                        /\ pc'[u] = "unl_lock"
              /\ last = "unload" =>
                    /\ pipeline = None
                    /\ pipeline' = None
                    /\ last' = "unload_noop"]_vars

\* the callback holds the lock on a loaded generator while a caller's
\* unload_model waits for it
C26_Witness ==
    \E j \in TimerIds, c \in Clients :
        /\ UnloadRace(j, c)
        /\ pipeline # None

\* C27: when a generate returns successfully, the resident pipeline and the
\* loaded variant are the variant the call asked for: the model id of the
\* preset it named, the name itself when it is no preset, the generator's
\* configured default when it named none.
C27_VariantResolution ==
    [][\A c \in Clients :
          GenerateReturns(c) =>
              /\ current_model_id' = TargetModel(req[c])
              /\ pipeline' = TargetModel(req[c])
              /\ GetStatus'.current_model = TargetModel(req[c])]_vars

\* a generate that named the preset of the other variant than the default
\* has succeeded
C27_Witness ==
    /\ last = "generate"
    /\ lock = {}
    /\ current_model_id = models["flux1-dev"]
    /\ current_model_id # model_id

\* C28: the step in which get_status returns leaves the resident pipeline,
\* the loaded variant, the access time, the timer reference, every timer's
\* state and remaining interval, and the configured timeout as they were.
C28_StatusObserves ==
    [][\A c \in Clients :
          StatusReturns(c) =>
              /\ pipeline' = pipeline
              /\ current_model_id' = current_model_id
              /\ last_access' = last_access
              /\ unload_timer' = unload_timer
              /\ PendingTimers' = PendingTimers
              /\ remaining' = remaining
              /\ unload_timeout' = unload_timeout
              /\ lock' = {}]_vars

\* get_status has been called and can take its snapshot of a loaded
\* generator whose timer is pending and partly elapsed
C28_Witness ==
    \E c \in Clients, j \in PendingTimers :
        /\ pc[c] = "st_lock"
        /\ lock = {}
        /\ pipeline # None
        /\ last_access # <<>>
        /\ last_access[1] > 0
        /\ remaining[j] > 0

\* C29: the timer a generate starts is started with a positive delay.
C29_PositiveDelay ==
    [][\A c \in Clients :
          (pc[c] = "arm" /\ pc'[c] = "idle") =>
              \A j \in unload_timer' : remaining'[j] > 0]_vars

\* C30: whenever the lock is free, so that get_status can take its snapshot,
\* a status that reports a positive time until unload has a pending timer
\* behind it that does not fire earlier than reported, and a status that
\* reports a loaded model with no time left, while no generate is in
\* flight, has a timer behind it that is due or whose callback is running.
C30_StatusMatchesSchedule ==
    (auto_unload /\ lock = {} /\ GetStatus.model_loaded
                 /\ GetStatus.time_until_unload # <<>>) =>
        IF GetStatus.time_until_unload[1] > 0
        THEN \E j \in PendingTimers :
                 remaining[j] >= GetStatus.time_until_unload[1]
        ELSE (\A c \in Clients : ~InGenerate(c)) =>
                 \E j \in TimerIds :
                     \/ pc[j] = "pending" /\ remaining[j] = 0
                     \/ pc[j] \in {"unl_lock", "unl_body"}
====
